---- MODULE Spec2Model ----
(***************************************************************************)
(* Model of the transaction compiler of miden-tx                           *)
(* (src/miden-tx/src/compiler/mod.rs): the account-interface registry, the *)
(* account / note-script / transaction compilers and the static check that *)
(* a compiled program only calls procedures of the target account; and of  *)
(* the account storage of miden-objects                                    *)
(* (src/objects/src/accounts/storage/mod.rs).                              *)
(***************************************************************************)
EXTENDS Integers, Sequences, FiniteSets, TLC

VARIABLES
    account_procedures, \* TransactionCompiler.account_procedures: BTreeMap<AccountId, Vec<Digest>>
    pc,                 \* position of the caller: "idle", "called" or "returned"
    call,               \* the operation in progress and its arguments
    ret,                \* the value the operation returned
    locals,             \* compile_transaction's locals (assembly context, code-block table)
    kernel_main,        \* TransactionCompiler.kernel_main: the compiled kernel entry program
    storage             \* the AccountStorage instance: slots, layout, maps

vars == <<account_procedures, pc, call, ret, locals, kernel_main, storage>>

(***************************************************************************)
(* Bounds of the model.                                                    *)
(***************************************************************************)
MaxNodes == 5      \* largest program tree handed to the compatibility check
MaxNotes == 2      \* longest note list handed to compile_transaction
MaxTargets == 2    \* longest target list handed to compile_note_script
MaxIfaceLen == 2   \* longest interface handed to the compatibility check

Digests == {1, 2}             \* procedure digests d1, d2 of the program trees
AccountIds == {"A", "B"}      \* account identifiers

Last(s) == s[Len(s)]
Range(s) == {s[i] : i \in 1..Len(s)}

RECURSIVE SeqsUpTo(_, _)
SeqsUpTo(S, n) ==
    IF n = 0 THEN {<<>>}
    ELSE LET shorter == SeqsUpTo(S, n - 1)
         IN  shorter \cup {Append(s, e) : s \in {t \in shorter : Len(t) = n - 1}, e \in S}

(***************************************************************************)
(* CodeBlock: the block-structured program the assembler produces.         *)
(***************************************************************************)
Join(a, b) == [kind |-> "Join", first |-> a, second |-> b]
Split(t, f) == [kind |-> "Split", on_true |-> t, on_false |-> f]
Loop(b) == [kind |-> "Loop", body |-> b]
Call(h, sys) == [kind |-> "Call", fn_hash |-> h, is_syscall |-> sys]
new_span(ops) == [kind |-> "Span", ops |-> ops]
Span == new_span(<<1>>)                \* a span of some operations
Proxy == [kind |-> "Proxy"]
Dyn == [kind |-> "Dyn"]

LeafBlocks == {Span, Proxy, Dyn} \cup {Call(h, sys) : h \in Digests, sys \in BOOLEAN}

\* the code blocks with exactly n nodes
BlocksOfSize[n \in 1..(MaxNodes + 1)] ==
    IF n = 1 THEN LeafBlocks
    ELSE {Loop(b) : b \in BlocksOfSize[n - 1]}
         \cup UNION {{Join(a, b) : a \in BlocksOfSize[i], b \in BlocksOfSize[n - 1 - i]}
                     : i \in 1..(n - 2)}
         \cup UNION {{Split(a, b) : a \in BlocksOfSize[i], b \in BlocksOfSize[n - 1 - i]}
                     : i \in 1..(n - 2)}

CodeBlocks == UNION {BlocksOfSize[n] : n \in 1..MaxNodes}

\* CodeBlock::hash(): the content hash of a block, one value per distinct
\* block content (the pre-order listing of the tree)
RECURSIVE Hash(_)
Hash(b) ==
    CASE b.kind = "Join" -> <<1>> \o Hash(b.first) \o Hash(b.second)
      [] b.kind = "Split" -> <<2>> \o Hash(b.on_true) \o Hash(b.on_false)
      [] b.kind = "Loop" -> <<3>> \o Hash(b.body)
      [] b.kind = "Call" -> <<IF b.is_syscall THEN 5 ELSE 4, b.fn_hash>>
      [] b.kind = "Span" -> <<6>> \o b.ops
      [] b.kind = "Proxy" -> <<7>>
      [] b.kind = "Dyn" -> <<8>>

(***************************************************************************)
(* Branch enumeration.  The walk threads the `branches` vector; `panicked` *)
(* records a failed `expect("at least one execution branch")` or an        *)
(* out-of-bounds slice.                                                    *)
(***************************************************************************)
Walk(branches) == [branches |-> branches, panicked |-> FALSE]
Panic == [branches |-> <<>>, panicked |-> TRUE]

\* call_arm without the is_syscall early return
call_arm_without_syscall_return(block, w) ==
    IF w.branches = <<>> THEN Panic
    ELSE Walk([w.branches EXCEPT ![Len(w.branches)] = Append(@, block.fn_hash)])

\* CodeBlock::Call arm: a kernel call returns at once, another call is
\* pushed onto the last branch
call_arm(block, w) ==
    IF block.is_syscall THEN w
    ELSE IF w.branches = <<>> THEN Panic
    ELSE Walk([w.branches EXCEPT ![Len(w.branches)] = Append(@, block.fn_hash)])

\* split_new_branch without the push: on_true keeps appending to the branch
\* on_false wrote
split_without_new_branch(w, current_len) ==
    IF w.branches = <<>> THEN Panic ELSE w

\* split_new_branch pushing a copy of the whole last branch
split_new_branch_whole(w, current_len) ==
    IF w.branches = <<>> THEN Panic
    ELSE IF Len(Last(w.branches)) > current_len
         THEN Walk(Append(w.branches, Last(w.branches)))
         ELSE w

\* CodeBlock::Split arm, between the two sides: when the on_false walk added
\* calls to the last branch, a new branch holding the prefix is pushed
split_new_branch(w, current_len) ==
    IF w.branches = <<>> THEN Panic
    ELSE IF Len(Last(w.branches)) > current_len
         THEN Walk(Append(w.branches, SubSeq(Last(w.branches), 1, current_len)))
         ELSE w

\* the walk with the body of a Loop walked twice
RECURSIVE recursively_collect_call_branches_loop_twice(_, _)
recursively_collect_call_branches_loop_twice(code_block, w) ==
    IF w.panicked THEN w
    ELSE CASE code_block.kind = "Join" ->
                recursively_collect_call_branches_loop_twice(code_block.second,
                    recursively_collect_call_branches_loop_twice(code_block.first, w))
           [] code_block.kind = "Split" ->
                IF w.branches = <<>> THEN Panic
                ELSE LET current_len == Len(Last(w.branches))
                         after_false ==
                             recursively_collect_call_branches_loop_twice(code_block.on_false, w)
                     IN  IF after_false.panicked THEN after_false
                         ELSE recursively_collect_call_branches_loop_twice(code_block.on_true,
                                  split_new_branch(after_false, current_len))
           [] code_block.kind = "Loop" ->
                recursively_collect_call_branches_loop_twice(code_block.body,
                    recursively_collect_call_branches_loop_twice(code_block.body, w))
           [] code_block.kind = "Call" -> call_arm(code_block, w)
           [] OTHER -> w

RECURSIVE recursively_collect_call_branches(_, _)
recursively_collect_call_branches(code_block, w) ==
    IF w.panicked THEN w
    ELSE CASE code_block.kind = "Join" ->
                recursively_collect_call_branches(code_block.second,
                    recursively_collect_call_branches(code_block.first, w))
           [] code_block.kind = "Split" ->
                IF w.branches = <<>> THEN Panic
                ELSE LET current_len == Len(Last(w.branches))
                         after_false == recursively_collect_call_branches(code_block.on_false, w)
                     IN  IF after_false.panicked THEN after_false
                         ELSE recursively_collect_call_branches(code_block.on_true,
                                  split_new_branch(after_false, current_len))
           [] code_block.kind = "Loop" ->
                recursively_collect_call_branches(code_block.body, w)
           [] code_block.kind = "Call" -> call_arm(code_block, w)
           [] code_block.kind = "Span" -> w
           [] code_block.kind = "Proxy" -> w
           [] code_block.kind = "Dyn" -> w

\* the walk started on an empty vector of branches
collect_call_branches_from_empty(code_block) ==
    recursively_collect_call_branches(code_block, Walk(<<>>))

collect_call_branches(code_block) ==
    recursively_collect_call_branches(code_block, Walk(<<<<>>>>))

\* a compatibility test that looks at the first entry of the interface only
any_branch_compatible_first_entry(branches, target_account_interface) ==
    \E i \in 1..Len(branches) :
        \A j \in 1..Len(branches[i]) :
            /\ target_account_interface # <<>>
            /\ branches[i][j] = target_account_interface[1]

\* branches.iter().any(|call_targets| call_targets.iter().all(|t| interface.contains(t)))
any_branch_compatible(branches, target_account_interface) ==
    \E i \in 1..Len(branches) :
        \A j \in 1..Len(branches[i]) : branches[i][j] \in Range(target_account_interface)

Ok(v) == [ok |-> TRUE, value |-> v]
Err(e, p) == [ok |-> FALSE, err |-> e, payload |-> p]
Unit == "()"
Panicked == [ok |-> FALSE, err |-> "panic", payload |-> Unit]

verify_program_account_compatibility(program, target_account_interface) ==
    LET w == collect_call_branches(program)
    IN  IF w.panicked THEN Panicked
        ELSE IF ~any_branch_compatible(w.branches, target_account_interface)
             THEN Err("ProgramIncompatibleWithAccountInterface", Hash(program))
             ELSE Ok(Unit)

\* the kernel entry program TransactionCompiler::new compiles from SatKernel::main
KernelMain == Join(new_span(<<2>>), Call(1, TRUE))

NoCall == [op |-> "none"]
NoRet == [ok |-> TRUE, value |-> "none"]
NoLocals == [compiled |-> <<>>, verified |-> <<>>, cb_table |-> <<>>]
NoStorage == [built |-> FALSE]         \* no AccountStorage constructed yet

(***************************************************************************)
(* The compatibility check on its own: every program tree of at most       *)
(* MaxNodes nodes against every interface over Digests.                    *)
(***************************************************************************)
Interfaces == SeqsUpTo(Digests, MaxIfaceLen)


InitVerify ==
    /\ account_procedures = [id \in {} |-> <<>>]
    /\ pc = "called"
    /\ \E p \in CodeBlocks, i \in Interfaces :
           call = [op |-> "verify_program_account_compatibility",
                   program |-> p, target_account_interface |-> i]
    /\ ret = NoRet
    /\ locals = NoLocals
    /\ kernel_main = KernelMain
    /\ storage = NoStorage

Verify ==
    /\ pc = "called"
    /\ call.op = "verify_program_account_compatibility"
    /\ ret' = verify_program_account_compatibility(call.program, call.target_account_interface)
    /\ pc' = "returned"
    /\ UNCHANGED <<account_procedures, call, locals, kernel_main, storage>>

NextVerify == Verify

SpecVerify == InitVerify /\ [][NextVerify]_vars

(***************************************************************************)
(* The compiler's inputs.  A source (ProgramAst, ModuleAst) is what the    *)
(* assembler makes of it: a failure, or the compiled code.                 *)
(***************************************************************************)
None == [some |-> FALSE]
Some(v) == [some |-> TRUE, v |-> v]

BadAst == [assembles |-> FALSE]
Ast(block) == [assembles |-> TRUE, code |-> block]

\* the sources of note scripts and transaction scripts
ProgramAsts ==
    {BadAst} \cup
    {Ast(b) : b \in {Span, Call(1, FALSE), Call(2, FALSE), Call(3, FALSE), Call(1, TRUE),
                     Split(Call(3, FALSE), Call(1, FALSE))}}

\* the interfaces accounts are registered with
AccountInterfaces == {<<>>, <<1>>, <<1, 2>>, <<3>>}

BadModule == [assembles |-> FALSE]
Module(procedures) == [assembles |-> TRUE, procedures |-> procedures]
ModuleAsts == {BadModule} \cup {Module(i) : i \in AccountInterfaces}

\* NoteTarget
TargetAccountId(id) == [target |-> "AccountId", id |-> id]
TargetProcedures(procs) == [target |-> "Procedures", procs |-> procs]
NoteTargets ==
    {TargetAccountId(id) : id \in AccountIds}
    \cup {TargetProcedures(i) : i \in {<<1, 2>>, <<3>>}}

\* Assembler::compile_in_context, ProgramAst -> CodeBlock
compile_in_context(ast) ==
    IF ast.assembles THEN Ok(ast.code) ELSE Err("AssemblyError", Unit)

\* Result::map_err; a panic is no Err value and unwinds through it
map_err(result, e) ==
    IF result.ok \/ result.err = "panic" THEN result ELSE e

\* BTreeMap::insert that keeps an entry the key already has
btree_insert_keeping_old(map, key, value) ==
    [map |-> IF key \in DOMAIN map THEN map
             ELSE [k \in DOMAIN map \cup {key} |-> IF k = key THEN value ELSE map[k]],
     old |-> IF key \in DOMAIN map THEN Some(map[key]) ELSE None]

\* BTreeMap::insert: the map with key bound to value, and the value it replaces
btree_insert(map, key, value) ==
    [map |-> [k \in DOMAIN map \cup {key} |-> IF k = key THEN value ELSE map[k]],
     old |-> IF key \in DOMAIN map THEN Some(map[key]) ELSE None]

\* AccountCode::new, ModuleAst -> AccountCode
account_code_new(account_code) ==
    IF account_code.assembles
    THEN Ok([procedures |-> account_code.procedures])
    ELSE Err("AccountError", Unit)

\* load_account registering the account also when the assembly fails
load_account_always_registering(procs, account_id, account_code) ==
    LET code == account_code_new(account_code)
    IN  IF ~code.ok
        THEN [ret |-> Err("LoadAccountFailed", code),
              procs |-> btree_insert(procs, account_id, <<>>).map]
        ELSE [ret |-> Ok(code.value),
              procs |-> btree_insert(procs, account_id, code.value.procedures).map]

load_account(procs, account_id, account_code) ==
    LET code == account_code_new(account_code)
    IN  IF ~code.ok
        THEN [ret |-> Err("LoadAccountFailed", code), procs |-> procs]
        ELSE [ret |-> Ok(code.value),
              procs |-> btree_insert(procs, account_id, code.value.procedures).map]

load_account_interface(procs, account_id, procedures) ==
    LET ins == btree_insert(procs, account_id, procedures)
    IN  [ret |-> ins.old, procs |-> ins.map]

\* get_target_interface taking an unregistered account for one that exports nothing
get_target_interface_or_default(procs, target) ==
    IF target.target = "AccountId"
    THEN IF target.id \in DOMAIN procs THEN Ok(procs[target.id]) ELSE Ok(<<>>)
    ELSE Ok(target.procs)

get_target_interface(procs, target) ==
    IF target.target = "AccountId"
    THEN IF target.id \in DOMAIN procs
         THEN Ok(procs[target.id])
         ELSE Err("AccountInterfaceNotFound", target.id)
    ELSE Ok(target.procs)

\* NoteScript::new, ProgramAst -> (NoteScript, CodeBlock)
note_script_new(note_script_ast) ==
    LET c == compile_in_context(note_script_ast)
    IN  IF c.ok
        THEN Ok([note_script |-> [hash |-> Hash(c.value), code |-> note_script_ast],
                 code_block |-> c.value])
        ELSE c

Verified(program, interface) == [program |-> program, interface |-> interface]

\* the loop of compile_note_script from target i on; `verified` lists the
\* calls of verify_program_account_compatibility made so far
RECURSIVE note_targets_loop(_, _, _, _, _)
note_targets_loop(procs, compiled, targets, i, verified) ==
    IF i > Len(targets)
    THEN [ret |-> Ok(compiled.note_script), verified |-> verified]
    ELSE LET interface == get_target_interface(procs, targets[i])
         IN  IF ~interface.ok
             THEN [ret |-> interface, verified |-> verified]
             ELSE LET v == map_err(
                          verify_program_account_compatibility(compiled.code_block,
                                                               interface.value),
                          Err("NoteIncompatibleWithAccountInterface",
                              Hash(compiled.code_block)))
                      verified1 == Append(verified,
                                          Verified(compiled.code_block, interface.value))
                  IN  IF ~v.ok
                      THEN [ret |-> v, verified |-> verified1]
                      ELSE note_targets_loop(procs, compiled, targets, i + 1, verified1)

compile_note_script(procs, note_script_ast, target_account_proc) ==
    LET compiled == map_err(note_script_new(note_script_ast),
                            Err("CompileNoteScriptFailed", Unit))
    IN  IF ~compiled.ok
        THEN [ret |-> compiled, verified |-> <<>>]
        ELSE note_targets_loop(procs, compiled.value, target_account_proc, 1, <<>>)

\* what one iteration of compile_notes makes of a note: the error it stops
\* with, or the compiled note program
compile_note(target_account_interface, recorded_note) ==
    LET note_program == map_err(compile_in_context(recorded_note),
                                Err("CompileNoteScriptFailed", Unit))
    IN  IF ~note_program.ok THEN note_program
        ELSE LET v == map_err(
                      verify_program_account_compatibility(note_program.value,
                                                           target_account_interface),
                      Err("NoteIncompatibleWithAccountInterface", Hash(note_program.value)))
             IN  IF ~v.ok THEN v ELSE note_program

\* the loop of compile_notes from note i on; `ctx` is the assembly context
\* (the sources compiled in it so far)
RECURSIVE compile_notes_loop(_, _, _, _, _, _)
compile_notes_loop(target_account_interface, notes, i, note_programs, ctx, verified) ==
    IF i > Len(notes)
    THEN [ret |-> Ok(note_programs), ctx |-> ctx, verified |-> verified]
    ELSE LET r == compile_note(target_account_interface, notes[i])
             ctx1 == Append(ctx, notes[i])
             verified1 == IF notes[i].assembles
                          THEN Append(verified,
                                      Verified(notes[i].code, target_account_interface))
                          ELSE verified
         IN  IF ~r.ok
             THEN [ret |-> r, ctx |-> ctx1, verified |-> verified1]
             ELSE compile_notes_loop(target_account_interface, notes, i + 1,
                                     Append(note_programs, r.value), ctx1, verified1)

Reverse(s) == [i \in 1..Len(s) |-> s[Len(s) + 1 - i]]

\* compile_notes walking the notes from the last to the first
compile_notes_reversed(target_account_interface, notes, ctx) ==
    compile_notes_loop(target_account_interface, Reverse(notes), 1, <<>>, ctx, <<>>)

compile_notes(target_account_interface, notes, ctx) ==
    compile_notes_loop(target_account_interface, notes, 1, <<>>, ctx, <<>>)

\* CodeBlock::new_span(vec![Operation::Noop])
NoopSpan == new_span(<<0>>)

\* tx_script_is_some.then_some(hash) that returns the hash of the no-op too
tx_script_hash_always(tx_script, tx_script_code_block) ==
    Some(Hash(tx_script_code_block))

\* tx_script_is_some.then_some(tx_script_code_block.hash())
tx_script_hash_of(tx_script, tx_script_code_block) ==
    IF tx_script.some THEN Some(Hash(tx_script_code_block)) ELSE None

compile_tx_script_program(tx_script, ctx, verified, target_account_interface) ==
    LET tx_script_code_block ==
            IF tx_script.some
            THEN map_err(compile_in_context(tx_script.v),
                         Err("CompileTxScriptFailed", Unit))
            ELSE Ok(NoopSpan)
        ctx1 == IF tx_script.some THEN Append(ctx, tx_script.v) ELSE ctx
    IN  IF ~tx_script_code_block.ok
        THEN [ret |-> tx_script_code_block, ctx |-> ctx1, verified |-> verified]
        ELSE LET block == tx_script_code_block.value
                 v == map_err(
                          verify_program_account_compatibility(block,
                                                               target_account_interface),
                          Err("TxScriptIncompatibleWithAccountInterface", Hash(block)))
                 verified1 == Append(verified, Verified(block, target_account_interface))
             IN  IF ~v.ok
                 THEN [ret |-> v, ctx |-> ctx1, verified |-> verified1]
                 ELSE [ret |-> Ok([program |-> block,
                                   hash |-> tx_script_hash_of(tx_script, block)]),
                       ctx |-> ctx1, verified |-> verified1]

\* cb_table_insert_all putting each block in front of the table
cb_table_insert_all_in_front(cb_table, blocks) ==
    Reverse(blocks) \o cb_table

\* CodeBlockTable::insert of each block of `blocks`, in order
RECURSIVE cb_table_insert_all(_, _)
cb_table_insert_all(cb_table, blocks) ==
    IF blocks = <<>> THEN cb_table
    ELSE cb_table_insert_all(Append(cb_table, Head(blocks)), Tail(blocks))

\* Program::with_kernel
with_kernel(root, cb_table) == [root |-> root, kernel |-> "kernel", cb_table |-> cb_table]

Locals(ctx, verified, cb_table) ==
    [compiled |-> ctx, verified |-> verified, cb_table |-> cb_table]

\* the look-up taking an unregistered account for one that exports nothing
lookup_or_default(procs, account_id, notes, tx_script) ==
    IF notes = <<>> /\ ~tx_script.some
    THEN IF account_id \in DOMAIN procs
         THEN Err("InvalidTransactionInputs", Unit)
         ELSE Err("AccountInterfaceNotFound", account_id)
    ELSE IF account_id \in DOMAIN procs THEN Ok(procs[account_id]) ELSE Ok(<<>>)

\* the empty-inputs check placed before the registry look-up
lookup_after_inputs_check(procs, account_id, notes, tx_script) ==
    IF notes = <<>> /\ ~tx_script.some
    THEN Err("InvalidTransactionInputs", Unit)
    ELSE IF account_id \in DOMAIN procs
         THEN Ok(procs[account_id])
         ELSE Err("AccountInterfaceNotFound", account_id)

\* the registry look-up and the empty-inputs check that open compile_transaction
lookup_and_check_inputs(procs, account_id, notes, tx_script) ==
    IF account_id \notin DOMAIN procs
    THEN Err("AccountInterfaceNotFound", account_id)
    ELSE IF notes = <<>> /\ ~tx_script.some
         THEN Err("InvalidTransactionInputs", Unit)
         ELSE Ok(procs[account_id])

\* `build_ok`: whether Assembler::build_cb_table succeeds on the context
compile_transaction(procs, kernel, account_id, notes, tx_script, build_ok) ==
    LET target_account_interface == lookup_and_check_inputs(procs, account_id, notes, tx_script)
    IN  IF ~target_account_interface.ok
        THEN [ret |-> target_account_interface, locals |-> NoLocals]
        ELSE
        LET note_script_programs == compile_notes(target_account_interface.value, notes, <<>>)
        IN  IF ~note_script_programs.ret.ok
            THEN [ret |-> note_script_programs.ret,
                  locals |-> Locals(note_script_programs.ctx,
                                    note_script_programs.verified, <<>>)]
            ELSE
            LET tx == compile_tx_script_program(tx_script, note_script_programs.ctx,
                                                note_script_programs.verified,
                                                target_account_interface.value)
            IN  IF ~tx.ret.ok
                THEN [ret |-> tx.ret, locals |-> Locals(tx.ctx, tx.verified, <<>>)]
                ELSE IF ~build_ok
                THEN [ret |-> Err("BuildCodeBlockTableFailed", Unit),
                      locals |-> Locals(tx.ctx, tx.verified, <<>>)]
                ELSE
                LET with_notes == cb_table_insert_all(<<>>, note_script_programs.ret.value)
                    cb_table == Append(with_notes, tx.ret.value.program)
                IN  [ret |-> Ok([program |-> with_kernel(kernel, cb_table),
                                 tx_script_hash |-> tx.ret.value.hash]),
                     locals |-> Locals(tx.ctx, tx.verified, cb_table)]

(***************************************************************************)
(* The compiler as a state machine: one action per public operation, and   *)
(* Return, by which the caller takes the result and is free to call again. *)
(***************************************************************************)
Init ==
    /\ account_procedures = [id \in {} |-> <<>>]     \* BTreeMap::default()
    /\ pc = "idle"
    /\ call = NoCall
    /\ ret = NoRet
    /\ locals = NoLocals
    /\ kernel_main = KernelMain
    /\ storage = NoStorage

LoadAccount ==
    /\ pc = "idle"
    /\ \E account_id \in AccountIds, account_code \in ModuleAsts :
        LET r == load_account(account_procedures, account_id, account_code)
        IN  /\ call' = [op |-> "load_account", account_id |-> account_id,
                        account_code |-> account_code]
            /\ ret' = r.ret
            /\ account_procedures' = r.procs
    /\ pc' = "returned"
    /\ UNCHANGED <<locals, kernel_main, storage>>

LoadAccountInterface ==
    /\ pc = "idle"
    /\ \E account_id \in AccountIds, procedures \in AccountInterfaces :
        LET r == load_account_interface(account_procedures, account_id, procedures)
        IN  /\ call' = [op |-> "load_account_interface", account_id |-> account_id,
                        procedures |-> procedures]
            /\ ret' = r.ret
            /\ account_procedures' = r.procs
    /\ pc' = "returned"
    /\ UNCHANGED <<locals, kernel_main, storage>>

CompileNoteScript ==
    /\ pc = "idle"
    /\ \E note_script_ast \in ProgramAsts,
          target_account_proc \in SeqsUpTo(NoteTargets, MaxTargets) :
        LET r == compile_note_script(account_procedures, note_script_ast,
                                     target_account_proc)
        IN  /\ call' = [op |-> "compile_note_script", note_script_ast |-> note_script_ast,
                        target_account_proc |-> target_account_proc]
            /\ ret' = r.ret
            /\ locals' = Locals(<<>>, r.verified, <<>>)
    /\ pc' = "returned"
    /\ UNCHANGED <<account_procedures, kernel_main, storage>>

CompileTransaction ==
    /\ pc = "idle"
    /\ \E account_id \in AccountIds,
          notes \in SeqsUpTo(ProgramAsts, MaxNotes),
          tx_script \in {None} \cup {Some(a) : a \in ProgramAsts},
          build_ok \in BOOLEAN :
        LET r == compile_transaction(account_procedures, kernel_main, account_id,
                                     notes, tx_script, build_ok)
        IN  /\ call' = [op |-> "compile_transaction", account_id |-> account_id,
                        notes |-> notes, tx_script |-> tx_script, build_ok |-> build_ok]
            /\ ret' = r.ret
            /\ locals' = r.locals
    /\ pc' = "returned"
    /\ UNCHANGED <<account_procedures, kernel_main, storage>>

\* TransactionCompiler::build_program_info: the hash of the kernel entry
\* program and the kernel
build_program_info(kernel) == [program_hash |-> Hash(kernel), kernel |-> "kernel"]

BuildProgramInfo ==
    /\ pc = "idle"
    /\ call' = [op |-> "build_program_info"]
    /\ ret' = Ok(build_program_info(kernel_main))
    /\ pc' = "returned"
    /\ UNCHANGED <<account_procedures, locals, kernel_main, storage>>

Return ==
    /\ pc = "returned"
    /\ pc' = "idle"
    /\ call' = NoCall
    /\ ret' = NoRet
    /\ locals' = NoLocals
    /\ UNCHANGED <<account_procedures, kernel_main, storage>>

Next ==
    \/ LoadAccount
    \/ LoadAccountInterface
    \/ CompileNoteScript
    \/ CompileTransaction
    \/ BuildProgramInfo
    \/ Return

Spec == Init /\ [][Next]_vars

(***************************************************************************)
(* Account storage (src/objects/src/accounts/storage/mod.rs).              *)
(***************************************************************************)
STORAGE_TREE_DEPTH == 8
NUM_STORAGE_SLOTS == 256
SLOT_LAYOUT_COMMITMENT_INDEX == 255

MaxItems == 2          \* most items handed to AccountStorage::new
MaxDeltaOps == 3       \* most cleared plus updated entries of one delta
MaxEncoded == 2        \* most entries of an encoding handed to read_from

\* Word: four field elements; Word::default() and SimpleSmt::EMPTY_VALUE are
\* the zero word
ZeroWord == <<0, 0, 0, 0>>
OneWord == <<1, 1, 1, 1>>
Words == {ZeroWord, OneWord}

\* StorageSlotType and its default
SlotValue(value_arity) == [kind |-> "Value", value_arity |-> value_arity]
SlotMap(value_arity) == [kind |-> "Map", value_arity |-> value_arity]
SlotArray(depth, value_arity) ==
    [kind |-> "Array", depth |-> depth, value_arity |-> value_arity]
slot_type_default == SlotValue(0)
is_default(slot_type) == slot_type = slot_type_default

\* u16 encoding of a slot type: the arity in the high byte, the low byte 0
\* for a value, 1 for a map, the depth for an array
slot_type_to_u16(slot_type) ==
    CASE slot_type.kind = "Value" -> slot_type.value_arity * 256
      [] slot_type.kind = "Map" -> slot_type.value_arity * 256 + 1
      [] slot_type.kind = "Array" -> slot_type.value_arity * 256 + slot_type.depth

\* the decoding of a u16: the arity is at most 64, an array depth is 2..64
u16_to_slot_type(value) ==
    LET value_arity == value \div 256
        depth == value % 256
    IN  IF value_arity > 64 THEN Err("InvalidValue", value)
        ELSE IF depth = 0 THEN Ok(SlotValue(value_arity))
        ELSE IF depth = 1 THEN Ok(SlotMap(value_arity))
        ELSE IF depth <= 64 THEN Ok(SlotArray(depth, value_arity))
        ELSE Err("InvalidValue", value)

\* Felt::from(&StorageSlotType): the u16 encoding as a field element
slot_type_to_felt(slot_type) == slot_type_to_u16(slot_type)

\* Hasher::hash_elements, collision free: the digest stands for its preimage
hash_elements(felts) == felts

\* the layout is a Vec of NUM_STORAGE_SLOTS slot types; slot index i is the
\* (i + 1)-th entry
layout_at(layout, index) == layout[index + 1]
\* a write of the layout that is lost
layout_kept(layout, index, slot_type) == layout

layout_set(layout, index, slot_type) == [layout EXCEPT ![index + 1] = slot_type]
hash_layout(layout) ==
    hash_elements([i \in 1..Len(layout) |-> slot_type_to_felt(layout[i])])

\* SimpleSmt<8>: the leaves that hold a non-empty value, by leaf index
LeafIndices == 0..(2^STORAGE_TREE_DEPTH - 1)
smt_new == <<>>
smt_get_leaf(slots, index) == IF index \in DOMAIN slots THEN slots[index] ELSE ZeroWord
\* an insertion that hands back the value inserted
smt_insert_returning_new(slots, index, value) ==
    [slots |-> IF value = ZeroWord
               THEN [i \in DOMAIN slots \ {index} |-> slots[i]]
               ELSE [i \in DOMAIN slots \cup {index} |->
                        IF i = index THEN value ELSE slots[i]],
     old |-> value]

\* SimpleSmt::insert: returns the old value; inserting the empty value
\* removes the leaf
smt_insert(slots, index, value) ==
    [slots |-> IF value = ZeroWord
               THEN [i \in DOMAIN slots \ {index} |-> slots[i]]
               ELSE [i \in DOMAIN slots \cup {index} |->
                        IF i = index THEN value ELSE slots[i]],
     old |-> smt_get_leaf(slots, index)]
\* SimpleSmt::root, collision free: the root stands for the values of all
\* 2^depth leaves
smt_root(slots) == [i \in LeafIndices |-> smt_get_leaf(slots, i)]
\* SimpleSmt::leaves: the stored leaves in ascending index order
smt_leaves(slots) ==
    SelectSeq([i \in 1..(2^STORAGE_TREE_DEPTH) |-> <<i - 1, smt_get_leaf(slots, i - 1)>>],
              LAMBDA leaf : leaf[1] \in DOMAIN slots)

\* SimpleSmt::with_leaves: inserts the entries in order and fails on the
\* first entry whose index was already given, with any value
RECURSIVE with_leaves_from(_, _, _, _)
with_leaves_from(entries, k, slots, seen) ==
    IF k > Len(entries) THEN Ok(slots)
    ELSE LET key == entries[k][1]
             value == entries[k][2]
         IN  IF key \in seen THEN Err("DuplicateValuesForIndex", key)
             ELSE with_leaves_from(entries, k + 1,
                                   smt_insert(slots, key, value).slots,
                                   seen \cup {key})
\* a construction of the tree in which the last entry of an index wins
with_leaves_last_wins(entries) ==
    LET last_of(key) == CHOOSE k \in 1..Len(entries) :
                            /\ entries[k][1] = key
                            /\ \A n \in 1..Len(entries) : entries[n][1] = key => n <= k
        keys == {entries[k][1] : k \in 1..Len(entries)}
    IN  Ok([key \in {i \in keys : entries[last_of(i)][2] # ZeroWord} |->
               entries[last_of(key)][2]])

with_leaves(entries) == with_leaves_from(entries, 1, smt_new, {})

\* the item closure without the check of the reserved slot
RECURSIVE collect_entries_unchecked(_, _, _, _)
collect_entries_unchecked(items, k, layout, entries) ==
    IF k > Len(items) THEN Ok([layout |-> layout, entries |-> entries])
    ELSE LET x == items[k]
         IN  collect_entries_unchecked(items, k + 1,
                                       layout_set(layout, x[1], x[2][1]),
                                       Append(entries, <<x[1], x[2][2]>>))

\* AccountStorage::new, the item closure of lines 84-95: the items in order,
\* the first one that addresses the reserved slot ends the collection
RECURSIVE collect_entries(_, _, _, _)
collect_entries(items, k, layout, entries) ==
    IF k > Len(items) THEN Ok([layout |-> layout, entries |-> entries])
    ELSE LET x == items[k]
         IN  IF x[1] = SLOT_LAYOUT_COMMITMENT_INDEX
             THEN Err("StorageSlotIsReserved", x[1])
             ELSE collect_entries(items, k + 1, layout_set(layout, x[1], x[2][1]),
                                  Append(entries, <<x[1], x[2][2]>>))

\* the layout before the items are processed
initial_layout ==
    layout_set([i \in 1..NUM_STORAGE_SLOTS |-> slot_type_default],
               SLOT_LAYOUT_COMMITMENT_INDEX, SlotValue(64))

\* the commitment entry computed from the layout before the items
commitment_entry_of_initial_layout(layout) ==
    <<SLOT_LAYOUT_COMMITMENT_INDEX, hash_layout(initial_layout)>>

\* the entry of the layout commitment, pushed after the items
commitment_entry(layout) == <<SLOT_LAYOUT_COMMITMENT_INDEX, hash_layout(layout)>>

\* the check of the number of maps
check_maps(maps) ==
    IF maps.some /\ Len(maps.v) > 255
    THEN Err("StorageMapToManyMaps",
             [max |-> NUM_STORAGE_SLOTS - 1, actual |-> Len(maps.v)])
    ELSE Ok(Unit)

\* AccountStorage::new(items, maps)
account_storage_new(items, maps) ==
    LET collected == collect_entries(items, 1, initial_layout, <<>>)
    IN  IF ~collected.ok THEN collected
        ELSE LET layout == collected.value.layout
                 entires == Append(collected.value.entries, commitment_entry(layout))
                 leaves == with_leaves(entires)
                 slots == map_err(leaves, Err("DuplicateStorageItems", leaves.payload))
             IN  IF ~slots.ok THEN slots
                 ELSE IF ~check_maps(maps).ok THEN check_maps(maps)
                 ELSE Ok([built |-> TRUE, slots |-> slots.value,
                          layout |-> layout, maps |-> maps])

\* the accessors
root(self) == smt_root(self.slots)
get_item(self, index) == smt_get_leaf(self.slots, index)
layout(self) == self.layout
layout_commitment(self) == hash_layout(self.layout)
maps(self) == self.maps

\* the checks of set_item by the slot type alone
set_item_check_by_type(self, index) ==
    LET slot_type == layout_at(self.layout, index)
    IN  IF slot_type.kind = "Value"
        THEN IF slot_type.value_arity > 0
             THEN Err("StorageSlotInvalidValueArity",
                      [slot |-> index, expected |-> 0,
                       actual |-> slot_type.value_arity])
             ELSE Ok(Unit)
        ELSE Err("StorageSlotNotValueSlot", <<index, slot_type>>)

\* the checks of set_item with value slots of every arity accepted
set_item_check_any_arity(self, index) ==
    IF index = SLOT_LAYOUT_COMMITMENT_INDEX
    THEN Err("StorageSlotIsReserved", index)
    ELSE LET slot_type == layout_at(self.layout, index)
         IN  IF slot_type.kind = "Value" THEN Ok(Unit)
             ELSE Err("StorageSlotNotValueSlot", <<index, slot_type>>)

\* set_item without any check
set_item_check_none(self, index) == Ok(Unit)

\* the checks of set_item before the insertion: the reserved slot first,
\* then the slot type
set_item_check(self, index) ==
    IF index = SLOT_LAYOUT_COMMITMENT_INDEX
    THEN Err("StorageSlotIsReserved", index)
    ELSE LET slot_type == layout_at(self.layout, index)
         IN  IF slot_type.kind = "Value"
             THEN IF slot_type.value_arity > 0
                  THEN Err("StorageSlotInvalidValueArity",
                           [slot |-> index, expected |-> 0,
                            actual |-> slot_type.value_arity])
                  ELSE Ok(Unit)
             ELSE Err("StorageSlotNotValueSlot", <<index, slot_type>>)

\* set_item with the insertion made before the checks
set_item_insert_first(self, index, value) ==
    LET checked == set_item_check(self, index)
        inserted == smt_insert(self.slots, index, value)
    IN  [self |-> [self EXCEPT !.slots = inserted.slots],
         ret |-> IF checked.ok THEN Ok(inserted.old) ELSE checked]

\* AccountStorage::set_item(index, value): the storage afterwards and the
\* result
set_item(self, index, value) ==
    LET checked == set_item_check(self, index)
        inserted == smt_insert(self.slots, index, value)
    IN  IF ~checked.ok THEN [self |-> self, ret |-> checked]
        ELSE [self |-> [self EXCEPT !.slots = inserted.slots],
              ret |-> Ok(inserted.old)]

\* one loop of apply_delta: set_item on each (index, value) in order, the
\* first error ends the loop
RECURSIVE set_items_in_order(_, _, _)
set_items_in_order(self, pairs, k) ==
    IF k > Len(pairs) THEN [self |-> self, ret |-> Ok(Unit)]
    ELSE LET r == set_item(self, pairs[k][1], pairs[k][2])
         IN  IF ~r.ret.ok THEN r
             ELSE set_items_in_order(r.self, pairs, k + 1)

\* apply_delta with the updated items before the cleared items
apply_delta_updates_first(self, delta) ==
    LET updated == set_items_in_order(self, delta.updated_items, 1)
    IN  IF ~updated.ret.ok THEN updated
        ELSE set_items_in_order(updated.self,
                 [k \in 1..Len(delta.cleared_items) |->
                      <<delta.cleared_items[k], ZeroWord>>], 1)

\* apply_delta that leaves the storage as it was when an item fails
apply_delta_atomic(self, delta) ==
    LET cleared == set_items_in_order(self,
                       [k \in 1..Len(delta.cleared_items) |->
                            <<delta.cleared_items[k], ZeroWord>>], 1)
        updated == set_items_in_order(cleared.self, delta.updated_items, 1)
    IN  IF ~cleared.ret.ok THEN [self |-> self, ret |-> cleared.ret]
        ELSE IF ~updated.ret.ok THEN [self |-> self, ret |-> updated.ret]
        ELSE updated

\* AccountStorage::apply_delta(delta): the cleared items, then the updated
\* items
apply_delta(self, delta) ==
    LET cleared == set_items_in_order(self,
                       [k \in 1..Len(delta.cleared_items) |->
                            <<delta.cleared_items[k], ZeroWord>>], 1)
    IN  IF ~cleared.ret.ok THEN cleared
        ELSE set_items_in_order(cleared.self, delta.updated_items, 1)

\* the inputs of the storage operations
SlotIndices == {0, 1, SLOT_LAYOUT_COMMITMENT_INDEX}
SlotTypes == {SlotValue(0), SlotValue(1), SlotMap(2), SlotArray(4, 3)}
SlotItems == {<<index, <<slot_type, value>>>> :
                index \in SlotIndices, slot_type \in SlotTypes, value \in Words}
\* no maps, one map, one map more than new accepts
MapsInputs == {None, Some(<<1>>), Some([i \in 1..NUM_STORAGE_SLOTS |-> 1])}
\* the deltas whose first list is cleared: at most MaxDeltaOps entries in all
StorageDeltas(cleared) ==
    {[cleared_items |-> cleared, updated_items |-> updated] :
        updated \in SeqsUpTo(SlotIndices \X Words, MaxDeltaOps - Len(cleared))}

\* `len as u8`: the low byte of a count
as_u8(n) == n % 256

\* a sequence of pairs written one field after the other
write_pairs(pairs) ==
    [i \in 1..(2 * Len(pairs)) |-> pairs[(i + 1) \div 2][IF i % 2 = 1 THEN 1 ELSE 2]]

\* the slot types of write_into: the non-default types of the indices below
\* 255, in index order
complex_types_of(self) ==
    SelectSeq([i \in 1..255 |-> <<i - 1, self.layout[i]>>],
              LAMBDA entry : ~is_default(entry[2]))

\* the slot values of write_into with the leaf of slot 255 among them
filled_slots_with_commitment(self) ==
    SelectSeq(smt_leaves(self.slots), LAMBDA leaf : leaf[2] # ZeroWord)

\* the slot values of write_into: the non-empty leaves other than slot 255,
\* in index order
filled_slots_of(self) ==
    SelectSeq(smt_leaves(self.slots),
              LAMBDA leaf : leaf[2] # ZeroWord
                            /\ as_u8(leaf[1]) # SLOT_LAYOUT_COMMITMENT_INDEX)

\* Serializable::write_into: the fields written, in order
write_into(self) ==
    LET complex_types == complex_types_of(self)
        filled_slots == filled_slots_of(self)
    IN  <<as_u8(Len(complex_types))>>
        \o write_pairs([k \in 1..Len(complex_types) |->
                          <<as_u8(complex_types[k][1]),
                            slot_type_to_u16(complex_types[k][2])>>])
        \o <<as_u8(Len(filled_slots))>>
        \o write_pairs([k \in 1..Len(filled_slots) |->
                          <<as_u8(filled_slots[k][1]), filled_slots[k][2]>>])

\* one read of the source at a position; past the end the read fails
read_at(source, pos) ==
    IF pos > Len(source) THEN Err("UnexpectedEOF", pos) ELSE Ok(source[pos])

\* read_from, first loop: n times an index and a slot type into the map of
\* complex types
RECURSIVE read_complex_types(_, _, _, _)
read_complex_types(source, pos, n, complex_types) ==
    IF n = 0 THEN Ok([pos |-> pos, complex_types |-> complex_types])
    ELSE LET idx == read_at(source, pos)
             code == read_at(source, pos + 1)
             slot_type == u16_to_slot_type(code.value)
         IN  IF ~idx.ok THEN idx
             ELSE IF ~code.ok THEN code
             ELSE IF ~slot_type.ok THEN slot_type
             ELSE read_complex_types(source, pos + 2, n - 1,
                      [i \in DOMAIN complex_types \cup {idx.value} |->
                          IF i = idx.value THEN slot_type.value ELSE complex_types[i]])

\* read_from, second loop: n times an index and a value; the type of the
\* item is taken out of the map of complex types, the default when absent
RECURSIVE read_filled_slots(_, _, _, _, _)
read_filled_slots(source, pos, n, complex_types, items) ==
    IF n = 0 THEN Ok(items)
    ELSE LET idx == read_at(source, pos)
             slot_value == read_at(source, pos + 1)
             slot_type == IF idx.value \in DOMAIN complex_types
                          THEN complex_types[idx.value] ELSE slot_type_default
         IN  IF ~idx.ok THEN idx
             ELSE IF ~slot_value.ok THEN slot_value
             ELSE read_filled_slots(source, pos + 2, n - 1,
                      [i \in DOMAIN complex_types \ {idx.value} |-> complex_types[i]],
                      Append(items, <<idx.value, <<slot_type, slot_value.value>>>>))

\* Deserializable::read_from
read_from(source) ==
    LET num_complex_types == read_at(source, 1)
        types == read_complex_types(source, 2, num_complex_types.value, <<>>)
        num_filled_slots == read_at(source, types.value.pos)
        items == read_filled_slots(source, types.value.pos + 1, num_filled_slots.value,
                                   types.value.complex_types, <<>>)
        built == account_storage_new(items.value, None)
    IN  IF ~num_complex_types.ok THEN num_complex_types
        ELSE IF ~types.ok THEN types
        ELSE IF ~num_filled_slots.ok THEN num_filled_slots
        ELSE IF ~items.ok THEN items
        ELSE map_err(built, Err("InvalidValue", built))

\* to_bytes followed by read_from_bytes
ReadFromBytes ==
    /\ pc = "idle"
    /\ storage.built
    /\ LET bytes == write_into(storage)
       IN  /\ call' = [op |-> "read_from_bytes", bytes |-> bytes]
           /\ ret' = read_from(bytes)
    /\ pc' = "returned"
    /\ UNCHANGED <<account_procedures, locals, kernel_main, storage>>

\* the encodings handed to read_from: a list of (index, slot type) entries
\* and a list of (index, value) entries, each behind its count, at most
\* MaxEncoded entries in all
EncodedTypes == SlotIndices \X {slot_type_to_u16(slot_type) : slot_type \in SlotTypes}
EncodedValues == SlotIndices \X Words
encode(types, values) ==
    <<as_u8(Len(types))>> \o write_pairs(types)
    \o <<as_u8(Len(values))>> \o write_pairs(values)

\* read_from on an encoding, whole or with its last field cut off
ReadFrom ==
    /\ pc = "idle"
    /\ ~storage.built
    /\ \E types \in SeqsUpTo(EncodedTypes, MaxEncoded) :
        \E values \in SeqsUpTo(EncodedValues, MaxEncoded - Len(types)) :
            \E cut \in {0, 1} :
                LET bytes == SubSeq(encode(types, values), 1,
                                    Len(encode(types, values)) - cut)
                IN  /\ call' = [op |-> "read_from", bytes |-> bytes,
                                types |-> types, values |-> values, cut |-> cut]
                    /\ ret' = read_from(bytes)
    /\ pc' = "returned"
    /\ UNCHANGED <<account_procedures, locals, kernel_main, storage>>

InitStorage ==
    /\ account_procedures = [id \in {} |-> <<>>]
    /\ pc = "idle"
    /\ call = NoCall
    /\ ret = NoRet
    /\ locals = NoLocals
    /\ kernel_main = KernelMain
    /\ storage = NoStorage

StorageNew ==
    /\ pc = "idle"
    /\ ~storage.built
    /\ \E items \in SeqsUpTo(SlotItems, MaxItems), maps_in \in MapsInputs :
        LET r == account_storage_new(items, maps_in)
        IN  /\ call' = [op |-> "new", items |-> items, maps |-> maps_in]
            /\ ret' = IF r.ok THEN Ok(Unit) ELSE r
            /\ storage' = IF r.ok THEN r.value ELSE storage
    /\ pc' = "returned"
    /\ UNCHANGED <<account_procedures, locals, kernel_main>>

SetItem ==
    /\ pc = "idle"
    /\ storage.built
    /\ \E index \in SlotIndices, value \in Words :
        LET r == set_item(storage, index, value)
        IN  /\ call' = [op |-> "set_item", index |-> index, value |-> value]
            /\ ret' = r.ret
            /\ storage' = r.self
    /\ pc' = "returned"
    /\ UNCHANGED <<account_procedures, locals, kernel_main>>

ApplyDelta ==
    /\ pc = "idle"
    /\ storage.built
    /\ \E cleared \in SeqsUpTo(SlotIndices, MaxDeltaOps) :
        \E delta \in StorageDeltas(cleared) :
            LET r == apply_delta(storage, delta)
            IN  /\ call' = [op |-> "apply_delta", delta |-> delta]
                /\ ret' = r.ret
                /\ storage' = r.self
    /\ pc' = "returned"
    /\ UNCHANGED <<account_procedures, locals, kernel_main>>

NextStorage ==
    \/ StorageNew
    \/ SetItem
    \/ ApplyDelta
    \/ ReadFromBytes
    \/ ReadFrom
    \/ Return

SpecStorage == InitStorage /\ [][NextStorage]_vars

(***************************************************************************)
(* Serialization of storages of every size: the storage starts unbuilt or  *)
(* as AccountStorage::new returns it for 255 items, one for each index     *)
(* below 255, all of one slot type and one value.                          *)
(***************************************************************************)
full_storage(slot_type, value) ==
    LET full_layout == [i \in 1..NUM_STORAGE_SLOTS |->
                           IF i - 1 = SLOT_LAYOUT_COMMITMENT_INDEX
                           THEN SlotValue(64) ELSE slot_type]
    IN  [built |-> TRUE,
         slots |-> [i \in {k \in LeafIndices :
                             k = SLOT_LAYOUT_COMMITMENT_INDEX \/ value # ZeroWord} |->
                       IF i = SLOT_LAYOUT_COMMITMENT_INDEX
                       THEN hash_layout(full_layout) ELSE value],
         layout |-> full_layout,
         maps |-> None]

InitWrite ==
    /\ account_procedures = [id \in {} |-> <<>>]
    /\ pc = "idle"
    /\ call = NoCall
    /\ ret = NoRet
    /\ locals = NoLocals
    /\ kernel_main = KernelMain
    /\ storage \in {NoStorage}
                   \cup {full_storage(slot_type, value) :
                            slot_type \in SlotTypes, value \in Words}

\* to_bytes: the fields write_into writes
WriteInto ==
    /\ pc = "idle"
    /\ storage.built
    /\ call' = [op |-> "write_into"]
    /\ ret' = Ok(write_into(storage))
    /\ pc' = "returned"
    /\ UNCHANGED <<account_procedures, locals, kernel_main, storage>>

NextWrite ==
    \/ StorageNew
    \/ SetItem
    \/ ApplyDelta
    \/ WriteInto
    \/ Return

SpecWrite == InitWrite /\ [][NextWrite]_vars

(***************************************************************************)
(* Helpers of the properties.                                              *)
(***************************************************************************)
\* the call histories of the execution paths of a block: one side of each
\* Split, both parts of each Join in order, each Loop body walked, kernel
\* calls left out
RECURSIVE ExecutionPaths(_)
ExecutionPaths(b) ==
    CASE b.kind = "Join" ->
            {p \o q : p \in ExecutionPaths(b.first), q \in ExecutionPaths(b.second)}
      [] b.kind = "Split" -> ExecutionPaths(b.on_false) \cup ExecutionPaths(b.on_true)
      [] b.kind = "Loop" -> ExecutionPaths(b.body)
      [] b.kind = "Call" -> IF b.is_syscall THEN {<<>>} ELSE {<<b.fn_hash>>}
      [] OTHER -> {<<>>}

\* the block and every block nested in it
RECURSIVE SubBlocks(_)
SubBlocks(b) ==
    {b} \cup
    CASE b.kind = "Join" -> SubBlocks(b.first) \cup SubBlocks(b.second)
      [] b.kind = "Split" -> SubBlocks(b.on_false) \cup SubBlocks(b.on_true)
      [] b.kind = "Loop" -> SubBlocks(b.body)
      [] OTHER -> {}

NonKernelCalls(b) == {c \in SubBlocks(b) : c.kind = "Call" /\ ~c.is_syscall}

VerifyReturned == pc = "returned" /\ call.op = "verify_program_account_compatibility"
Incompatible(program) == Err("ProgramIncompatibleWithAccountInterface", Hash(program))

\* a Split one side of which is the call of p and the other the call of q
IsBranchOf(b, p, q) ==
    /\ b.kind = "Split"
    /\ \/ b.on_false = Call(p, FALSE) /\ b.on_true = Call(q, FALSE)
       \/ b.on_false = Call(q, FALSE) /\ b.on_true = Call(p, FALSE)

(***************************************************************************)
(* C1: the check returns Ok iff some execution path through the tree has   *)
(* all its non-kernel call targets in the interface, and otherwise the     *)
(* incompatibility error carrying the program's root hash.                 *)
(***************************************************************************)
C1_OkIffSomePathCompatible ==
    VerifyReturned =>
        /\ ret.ok <=> \E p \in ExecutionPaths(call.program) :
                          Range(p) \subseteq Range(call.target_account_interface)
        /\ ~ret.ok => ret = Incompatible(call.program)

(***************************************************************************)
(* C2, as stated: every program that contains a Branch with the call of P1 *)
(* (in the interface) on one side and the call of P2 (not in it) on the    *)
(* other passes the check, and every program that contains a Branch with   *)
(* the call of P2 on both sides fails it.                                  *)
(***************************************************************************)
C2_AnyProgramContainingBranch ==
    VerifyReturned =>
        \A b \in SubBlocks(call.program) :
            \A p1 \in Range(call.target_account_interface),
               p2 \in Digests \ Range(call.target_account_interface) :
                /\ IsBranchOf(b, p1, p2) => ret.ok
                /\ IsBranchOf(b, p2, p2) => ~ret.ok

(***************************************************************************)
(* C2, amended: a program that is such a Branch (P1 on either side, P2 on  *)
(* the other) passes the check, and a program that is a Branch with the    *)
(* call of P2 on both sides fails with its own hash.                       *)
(***************************************************************************)
C2_ProgramIsBranch ==
    VerifyReturned =>
        \A p1 \in Range(call.target_account_interface),
           p2 \in Digests \ Range(call.target_account_interface) :
            /\ IsBranchOf(call.program, p1, p2) => ret = Ok(Unit)
            /\ IsBranchOf(call.program, p2, p2) => ret = Incompatible(call.program)

C2_Witness ==
    /\ VerifyReturned
    /\ call.program = Split(Call(2, FALSE), Call(1, FALSE))
    /\ call.target_account_interface = <<1>>
    /\ ret.ok

(***************************************************************************)
(* C3: a program all of whose Call nodes are kernel calls, or that has no  *)
(* Call node, passes the check against every interface, the empty one      *)
(* included.                                                               *)
(***************************************************************************)
C3_KernelOnlyProgramPasses ==
    VerifyReturned =>
        (NonKernelCalls(call.program) = {} => ret = Ok(Unit))

C3_Witness ==
    /\ VerifyReturned
    /\ call.program = Join(Call(1, TRUE), Split(Dyn, Call(2, TRUE)))
    /\ call.target_account_interface = <<>>
    /\ ret.ok

(***************************************************************************)
(* compile_transaction: helpers of the properties.                         *)
(***************************************************************************)
TxReturned == pc = "returned" /\ call.op = "compile_transaction"
Registered(id) == id \in DOMAIN account_procedures
EmptyInputs == call.notes = <<>> /\ ~call.tx_script.some

\* what compiling and verifying one source against an interface ends with:
\* "passes", or the error value
NoteOutcome(ast, interface) ==
    IF ~ast.assembles THEN Err("CompileNoteScriptFailed", Unit)
    ELSE IF verify_program_account_compatibility(ast.code, interface).ok
         THEN Ok(ast.code)
         ELSE Err("NoteIncompatibleWithAccountInterface", Hash(ast.code))

\* the index of the first note that fails, 0 when every note passes
FirstFailingNote(notes, interface) ==
    LET failing == {i \in 1..Len(notes) : ~NoteOutcome(notes[i], interface).ok}
    IN  IF failing = {} THEN 0 ELSE CHOOSE i \in failing : \A j \in failing : i <= j

\* the verify calls for the sources of `asts` that assemble, in order
RECURSIVE VerifiedOf(_, _)
VerifiedOf(asts, interface) ==
    IF asts = <<>> THEN <<>>
    ELSE (IF Head(asts).assembles THEN <<Verified(Head(asts).code, interface)>> ELSE <<>>)
         \o VerifiedOf(Tail(asts), interface)

ScriptAsts(tx_script) == IF tx_script.some THEN <<tx_script.v>> ELSE <<>>

(***************************************************************************)
(* C4, as stated: compile_transaction fails with InvalidTransactionInputs  *)
(* iff the note list is empty and no script is supplied, for every account *)
(* id and every registry state.                                            *)
(***************************************************************************)
C4_InvalidInputsIffEmpty ==
    TxReturned =>
        (ret = Err("InvalidTransactionInputs", Unit) <=> EmptyInputs)

(***************************************************************************)
(* C4, amended: for an account id that has a registered interface,         *)
(* compile_transaction fails with InvalidTransactionInputs iff the note    *)
(* list is empty and no script is supplied; for an unregistered id it      *)
(* never does.                                                             *)
(***************************************************************************)
C4_InvalidInputsIffEmptyAndRegistered ==
    TxReturned =>
        (ret = Err("InvalidTransactionInputs", Unit)
            <=> (Registered(call.account_id) /\ EmptyInputs))

C4_Witness ==
    /\ TxReturned
    /\ Registered(call.account_id)
    /\ EmptyInputs
    /\ ret = Err("InvalidTransactionInputs", Unit)

(***************************************************************************)
(* C5: compile_transaction for an id with no registered interface fails    *)
(* with AccountInterfaceNotFound carrying the id, whatever the notes and   *)
(* the script, before anything is compiled; for a registered id it passes  *)
(* the look-up; and an id registered by load_account or                    *)
(* load_account_interface stays registered.                                *)
(***************************************************************************)
C5_LookupFirst ==
    /\ [](TxReturned =>
            /\ ~Registered(call.account_id) =>
                  /\ ret = Err("AccountInterfaceNotFound", call.account_id)
                  /\ locals = NoLocals
            /\ Registered(call.account_id) =>
                  ~(~ret.ok /\ ret.err = "AccountInterfaceNotFound"))
    /\ [][/\ DOMAIN account_procedures \subseteq DOMAIN account_procedures'
          /\ (pc' = "returned" /\ call'.op = "load_account_interface")
                => call'.account_id \in DOMAIN account_procedures'
          /\ (pc' = "returned" /\ call'.op = "load_account" /\ ret'.ok)
                => call'.account_id \in DOMAIN account_procedures']_vars

C5_Witness ==
    /\ TxReturned
    /\ ~Registered(call.account_id)
    /\ DOMAIN account_procedures # {}
    /\ Len(call.notes) = MaxNotes
    /\ call.tx_script.some
    /\ ret = Err("AccountInterfaceNotFound", call.account_id)

(***************************************************************************)
(* C6: a successful compile_transaction returns a script hash iff a script *)
(* was supplied, and the hash is that of the compiled script; with no      *)
(* script the no-op span is verified and inserted in its place, it passes  *)
(* against every interface (the call succeeds whenever the notes pass and  *)
(* the table is built), and no hash is returned.                           *)
(***************************************************************************)
C6_ScriptHashIffScript ==
    TxReturned =>
        /\ ret.ok =>
            /\ ret.value.tx_script_hash.some <=> call.tx_script.some
            /\ call.tx_script.some =>
                  ret.value.tx_script_hash = Some(Hash(call.tx_script.v.code))
            /\ ~call.tx_script.some =>
                  /\ ret.value.tx_script_hash = None
                  /\ Last(locals.cb_table) = NoopSpan
                  /\ Last(locals.verified)
                        = Verified(NoopSpan, account_procedures[call.account_id])
        /\ ( /\ Registered(call.account_id)
             /\ ~call.tx_script.some
             /\ call.notes # <<>>
             /\ FirstFailingNote(call.notes, account_procedures[call.account_id]) = 0
             /\ call.build_ok ) => ret.ok

C6_Witness ==
    /\ TxReturned
    /\ ret.ok
    /\ ~call.tx_script.some
    /\ account_procedures[call.account_id] = <<>>
    /\ ret.value.tx_script_hash = None

(***************************************************************************)
(* C7: the notes are compiled and verified in the caller's order and the   *)
(* first failing note ends the call: the error is that note's, no later    *)
(* note and no script is compiled or verified, and a script error is       *)
(* returned only when every note passed.                                   *)
(***************************************************************************)
C7_FirstFailingNoteAborts ==
    (TxReturned /\ Registered(call.account_id) /\ ~EmptyInputs) =>
        LET interface == account_procedures[call.account_id]
            k == FirstFailingNote(call.notes, interface)
        IN  /\ k > 0 =>
                /\ ret = NoteOutcome(call.notes[k], interface)
                /\ locals.compiled = SubSeq(call.notes, 1, k)
                /\ locals.verified = VerifiedOf(SubSeq(call.notes, 1, k), interface)
                /\ locals.cb_table = <<>>
            /\ k = 0 =>
                /\ locals.compiled = call.notes \o ScriptAsts(call.tx_script)
                /\ ~ret.ok => ret.err \in {"CompileTxScriptFailed",
                                           "TxScriptIncompatibleWithAccountInterface",
                                           "BuildCodeBlockTableFailed"}
            /\ (~ret.ok /\ ret.err \in {"CompileTxScriptFailed",
                                        "TxScriptIncompatibleWithAccountInterface"})
                  => k = 0

C7_Witness ==
    /\ TxReturned
    /\ Len(call.notes) = 2
    /\ call.notes[1].assembles
    /\ ~call.notes[2].assembles
    /\ call.tx_script.some
    /\ ret = Err("NoteIncompatibleWithAccountInterface", Hash(call.notes[1].code))
    /\ locals.compiled = <<call.notes[1]>>

(***************************************************************************)
(* C8: a successful compile_transaction inserts the note programs into the *)
(* code-block table in the caller's note order and the script program (or  *)
(* the no-op) after all of them; the returned program is the kernel entry  *)
(* program over exactly that table, so it is fixed by the inputs.          *)
(***************************************************************************)
C8_InsertionOrder ==
    (TxReturned /\ ret.ok) =>
        LET expected ==
                [i \in 1..Len(call.notes) |-> call.notes[i].code]
                \o <<IF call.tx_script.some THEN call.tx_script.v.code ELSE NoopSpan>>
        IN  /\ locals.cb_table = expected
            /\ ret.value.program = with_kernel(kernel_main, expected)

C8_Witness ==
    /\ TxReturned
    /\ ret.ok
    /\ Len(call.notes) = 2
    /\ call.notes[1] # call.notes[2]
    /\ call.tx_script.some
    /\ call.tx_script.v \notin Range(call.notes)

(***************************************************************************)
(* C9: load_account_interface(id, digests) returns None when id has no     *)
(* entry and otherwise the entry, which is the digest sequence most        *)
(* recently registered for id: a registration (load_account_interface, or  *)
(* a load_account that assembles) makes the entry of its id exactly the    *)
(* new digests, and no other step changes an entry.                        *)
(***************************************************************************)
\* the operation that has just returned registered an interface for id
RegistrationReturned(id) ==
    /\ pc = "returned"
    /\ \/ call.op = "load_account_interface"
       \/ call.op = "load_account" /\ ret.ok
    /\ call.account_id = id

C9_ReturnsPreviousInterface ==
    [][/\ (pc' = "returned" /\ call'.op = "load_account_interface") =>
            /\ ret' = IF call'.account_id \in DOMAIN account_procedures
                      THEN Some(account_procedures[call'.account_id])
                      ELSE None
            /\ account_procedures'[call'.account_id] = call'.procedures
       /\ (pc' = "returned" /\ call'.op = "load_account" /\ ret'.ok) =>
            account_procedures'[call'.account_id] = call'.account_code.procedures
       /\ \A id \in DOMAIN account_procedures :
            ~RegistrationReturned(id)' =>
                /\ id \in DOMAIN account_procedures'
                /\ account_procedures'[id] = account_procedures[id]
       /\ \A id \in AccountIds \ DOMAIN account_procedures :
            id \in DOMAIN account_procedures' => RegistrationReturned(id)']_vars

C9_Witness ==
    /\ pc = "returned"
    /\ call.op = "load_account_interface"
    /\ call.procedures = <<3>>
    /\ ret = Some(<<1, 2>>)
    /\ account_procedures[call.account_id] = <<3>>

(***************************************************************************)
(* C10: compile_note_script takes the targets in list order and succeeds   *)
(* only when the script passes the check against every one of them: an     *)
(* AccountId target with no entry ends the call with                       *)
(* AccountInterfaceNotFound, a Procedures target is checked against its    *)
(* own digest list whatever the registry holds, and the first incompatible *)
(* target ends the call with NoteIncompatibleWithAccountInterface carrying *)
(* the hash of the note script's program.                                  *)
(***************************************************************************)
TargetOutcome(ast, target) ==
    IF target.target = "AccountId" /\ ~Registered(target.id)
    THEN Err("AccountInterfaceNotFound", target.id)
    ELSE NoteOutcome(ast, IF target.target = "AccountId"
                          THEN account_procedures[target.id]
                          ELSE target.procs)

FirstFailingTarget(ast, targets) ==
    LET failing == {i \in 1..Len(targets) : ~TargetOutcome(ast, targets[i]).ok}
    IN  IF failing = {} THEN 0 ELSE CHOOSE i \in failing : \A j \in failing : i <= j

C10_TargetsInOrder ==
    (pc = "returned" /\ call.op = "compile_note_script") =>
        LET ast == call.note_script_ast
            targets == call.target_account_proc
            k == FirstFailingTarget(ast, targets)
        IN  IF ~ast.assembles
            THEN ret = Err("CompileNoteScriptFailed", Unit) /\ locals.verified = <<>>
            ELSE /\ k = 0 =>
                    /\ ret = Ok([hash |-> Hash(ast.code), code |-> ast])
                    /\ Len(locals.verified) = Len(targets)
                 /\ k > 0 =>
                    /\ ret = TargetOutcome(ast, targets[k])
                    /\ Len(locals.verified)
                          = IF ret.err = "AccountInterfaceNotFound" THEN k - 1 ELSE k
                 /\ \A i \in 1..Len(locals.verified) :
                        /\ locals.verified[i].program = ast.code
                        /\ locals.verified[i].interface
                              = IF targets[i].target = "Procedures"
                                THEN targets[i].procs
                                ELSE account_procedures[targets[i].id]

C10_Witness ==
    /\ pc = "returned"
    /\ call.op = "compile_note_script"
    /\ call.note_script_ast = Ast(Call(3, FALSE))
    /\ call.target_account_proc = <<TargetProcedures(<<3>>), TargetAccountId("A")>>
    /\ Registered("A")
    /\ account_procedures["A"] = <<1, 2>>
    /\ ret = Err("NoteIncompatibleWithAccountInterface", Hash(Call(3, FALSE)))

(***************************************************************************)
(* Properties of the account storage.                                      *)
(***************************************************************************)
\* a call of the storage operation has returned
StorageReturned(op) == pc = "returned" /\ call.op = op

\* C11: in every state after a successful AccountStorage::new, whatever
\* set_item and apply_delta calls followed and whether they failed or not,
\* the layout has NUM_STORAGE_SLOTS entries and the value of slot 255 is the
\* layout commitment recomputed from the current layout
C11_LayoutCommitmentKept ==
    storage.built =>
        /\ Len(layout(storage)) = NUM_STORAGE_SLOTS
        /\ get_item(storage, SLOT_LAYOUT_COMMITMENT_INDEX) = layout_commitment(storage)

\* a storage with a map slot and a value slot, after a delta that set the
\* value slot and then failed on the map slot
C11_Witness ==
    /\ StorageReturned("apply_delta")
    /\ ~ret.ok
    /\ layout_at(layout(storage), 0) = SlotMap(2)
    /\ get_item(storage, 1) = OneWord
    /\ call.delta.updated_items = <<<<1, OneWord>>, <<0, OneWord>>>>

\* C12: for every storage, built from items of any slot types and any
\* values, the zero word included, reading the written storage back yields
\* a storage with the same root and the same layout
C12_RoundTripKeepsRootAndLayout ==
    StorageReturned("read_from_bytes") =>
        /\ ret.ok
        /\ root(ret.value) = root(storage)
        /\ layout(ret.value) = layout(storage)

\* C13: set_item on index 255 fails with the reserved-slot error, whatever
\* the value, the layout and the state of the storage
C13_ReservedSlotNotSettable ==
    (StorageReturned("set_item") /\ call.index = SLOT_LAYOUT_COMMITMENT_INDEX) =>
        ret = Err("StorageSlotIsReserved", SLOT_LAYOUT_COMMITMENT_INDEX)

C13_Witness ==
    /\ StorageReturned("set_item")
    /\ call.index = SLOT_LAYOUT_COMMITMENT_INDEX
    /\ call.value = OneWord
    /\ layout_at(layout(storage), 1) = SlotArray(4, 3)
    /\ get_item(storage, 0) = OneWord
    /\ ret = Err("StorageSlotIsReserved", SLOT_LAYOUT_COMMITMENT_INDEX)

\* C14: set_item on an index other than 255 fails with the not-a-value-slot
\* error when the slot's type is Array or Map, fails with the invalid-arity
\* error (expected 0, actual the arity) when the type is Value of an arity
\* above 0, and succeeds exactly when the type is Value of arity 0
C14_SetItemOutcomeByType ==
    [][(pc = "idle" /\ StorageReturned("set_item")'
            /\ call'.index # SLOT_LAYOUT_COMMITMENT_INDEX) =>
        LET index == call'.index
            slot_type == layout_at(layout(storage), index)
        IN  /\ slot_type.kind \in {"Array", "Map"} =>
                  ret' = Err("StorageSlotNotValueSlot", <<index, slot_type>>)
            /\ (slot_type.kind = "Value" /\ slot_type.value_arity > 0) =>
                  ret' = Err("StorageSlotInvalidValueArity",
                             [slot |-> index, expected |-> 0,
                              actual |-> slot_type.value_arity])
            /\ ret'.ok <=> slot_type = SlotValue(0)]_vars

C14_Witness ==
    /\ StorageReturned("set_item")
    /\ call.index = 0
    /\ layout_at(layout(storage), 0) = SlotValue(1)
    /\ layout_at(layout(storage), 1) = SlotValue(0)
    /\ ret = Err("StorageSlotInvalidValueArity",
                 [slot |-> 0, expected |-> 0, actual |-> 1])

\* C15: a successful set_item(i, v) returns the value slot i held just
\* before the call (the zero word when the slot holds nothing), get_item(i)
\* is v afterwards, and every other slot, slot 255 included, keeps its value
C15_SetItemReturnsOldSetsNew ==
    [][(pc = "idle" /\ StorageReturned("set_item")' /\ ret'.ok) =>
        LET i == call'.index
        IN  /\ ret'.value = get_item(storage, i)
            /\ i \notin DOMAIN storage.slots => ret'.value = ZeroWord
            /\ get_item(storage', i) = call'.value
            /\ \A j \in LeafIndices \ {i} :
                    get_item(storage', j) = get_item(storage, j)]_vars

C15_Witness ==
    /\ StorageReturned("set_item")
    /\ call.index = 0
    /\ call.value = ZeroWord
    /\ ret = Ok(OneWord)
    /\ get_item(storage, 0) = ZeroWord
    /\ get_item(storage, 1) = OneWord

\* the positions of the pairs of a delta's updated list that address a slot
UpdatesOf(delta, i) ==
    {k \in 1..Len(delta.updated_items) : delta.updated_items[k][1] = i}

\* C16: after a successful apply_delta every index listed in updated holds
\* its updated value (of the last pair that names it), also when the index
\* is listed in cleared as well; every index listed only in cleared holds
\* the zero word; every slot named in neither list is unchanged
C16_ClearsBeforeUpdates ==
    [][(pc = "idle" /\ StorageReturned("apply_delta")' /\ ret'.ok) =>
        LET delta == call'.delta
        IN  \A i \in LeafIndices :
                IF UpdatesOf(delta, i) # {}
                THEN \E k \in UpdatesOf(delta, i) :
                        /\ \A n \in UpdatesOf(delta, i) : n <= k
                        /\ get_item(storage', i) = delta.updated_items[k][2]
                ELSE IF i \in Range(delta.cleared_items)
                THEN get_item(storage', i) = ZeroWord
                ELSE get_item(storage', i) = get_item(storage, i)]_vars

C16_Witness ==
    /\ StorageReturned("apply_delta")
    /\ ret.ok
    /\ call.delta.cleared_items = <<0, 1>>
    /\ call.delta.updated_items = <<<<0, OneWord>>>>
    /\ get_item(storage, 0) = OneWord
    /\ get_item(storage, 1) = ZeroWord

\* the set_item calls of a delta: the clears, then the updates, each in list
\* order
DeltaOps(delta) ==
    [k \in 1..Len(delta.cleared_items) |-> <<delta.cleared_items[k], ZeroWord>>]
    \o delta.updated_items

\* the storage after the first n of the calls
RECURSIVE AfterOps(_, _, _)
AfterOps(self, ops, n) ==
    IF n = 0 THEN self
    ELSE set_item(AfterOps(self, ops, n - 1), ops[n][1], ops[n][2]).self

\* the result of the n-th call, made after the first n - 1
OpResult(self, ops, n) == set_item(AfterOps(self, ops, n - 1), ops[n][1], ops[n][2]).ret

\* C17: when the k-th set_item of a delta is the first to fail, apply_delta
\* returns its error and leaves the storage as the first k - 1 calls made it:
\* their effects remain and no later call is applied
C17_DeltaNotAtomic ==
    [][(pc = "idle" /\ StorageReturned("apply_delta")') =>
        LET ops == DeltaOps(call'.delta)
            failing == {n \in 1..Len(ops) : ~OpResult(storage, ops, n).ok}
        IN  /\ ret'.ok <=> failing = {}
            /\ failing # {} =>
                  \E k \in failing :
                      /\ \A n \in failing : k <= n
                      /\ ret' = OpResult(storage, ops, k)
                      /\ storage' = AfterOps(storage, ops, k - 1)]_vars

C17_Witness ==
    /\ StorageReturned("apply_delta")
    /\ call.delta.cleared_items = <<0>>
    /\ call.delta.updated_items = <<<<1, OneWord>>, <<SLOT_LAYOUT_COMMITMENT_INDEX, OneWord>>>>
    /\ ret = Err("StorageSlotIsReserved", SLOT_LAYOUT_COMMITMENT_INDEX)
    /\ get_item(storage, 0) = ZeroWord
    /\ get_item(storage, 1) = OneWord

\* C18: AccountStorage::new fails with the reserved-slot error carrying 255
\* whenever an item addresses index 255, at any position of the list and
\* whatever else is wrong with the input, and no storage is returned
C18_ReservedItemRejected ==
    (StorageReturned("new")
        /\ \E k \in 1..Len(call.items) : call.items[k][1] = SLOT_LAYOUT_COMMITMENT_INDEX) =>
        /\ ret = Err("StorageSlotIsReserved", SLOT_LAYOUT_COMMITMENT_INDEX)
        /\ ~storage.built

C18_Witness ==
    /\ StorageReturned("new")
    /\ call.items = <<<<0, <<SlotMap(2), OneWord>>>>,
                      <<SLOT_LAYOUT_COMMITMENT_INDEX, <<SlotValue(0), ZeroWord>>>>>>
    /\ call.maps.some
    /\ Len(call.maps.v) > 255
    /\ ret = Err("StorageSlotIsReserved", SLOT_LAYOUT_COMMITMENT_INDEX)
    /\ ~storage.built

\* the positions of the items of a list that address a slot
ItemsAt(items, i) == {k \in 1..Len(items) : items[k][1] = i}

\* C19 as stated: after a successful AccountStorage::new every index of the
\* layout that no item addresses has the slot type Value of arity 0, and
\* every index an item addresses has that item's slot type
C19_UnaddressedSlotsDefault ==
    (StorageReturned("new") /\ ret.ok) =>
        \A i \in 0..(NUM_STORAGE_SLOTS - 1) :
            IF ItemsAt(call.items, i) = {}
            THEN layout_at(layout(storage), i) = SlotValue(0)
            ELSE \A k \in ItemsAt(call.items, i) :
                    layout_at(layout(storage), i) = call.items[k][2][1]

\* C19: after a successful AccountStorage::new index 255, which no item
\* addresses, has the slot type Value of arity 64; every other index that no
\* item addresses has the slot type Value of arity 0; every index an item
\* addresses has that item's slot type
C19_UnaddressedSlotsDefaultBut255 ==
    (StorageReturned("new") /\ ret.ok) =>
        /\ Len(layout(storage)) = NUM_STORAGE_SLOTS
        /\ ItemsAt(call.items, SLOT_LAYOUT_COMMITMENT_INDEX) = {}
        /\ layout_at(layout(storage), SLOT_LAYOUT_COMMITMENT_INDEX) = SlotValue(64)
        /\ \A i \in 0..(NUM_STORAGE_SLOTS - 1) \ {SLOT_LAYOUT_COMMITMENT_INDEX} :
            IF ItemsAt(call.items, i) = {}
            THEN layout_at(layout(storage), i) = SlotValue(0)
            ELSE \A k \in ItemsAt(call.items, i) :
                    layout_at(layout(storage), i) = call.items[k][2][1]

C19_Witness ==
    /\ StorageReturned("new")
    /\ ret.ok
    /\ call.items = <<<<1, <<SlotArray(4, 3), ZeroWord>>>>, <<0, <<SlotMap(2), OneWord>>>>>>
    /\ layout_at(layout(storage), 0) = SlotMap(2)
    /\ layout_at(layout(storage), 1) = SlotArray(4, 3)
    /\ layout_at(layout(storage), 2) = SlotValue(0)
    /\ layout_at(layout(storage), SLOT_LAYOUT_COMMITMENT_INDEX) = SlotValue(64)

\* the orders in which the items of a list can be given
PermutationsOf(items) ==
    {[k \in 1..Len(items) |-> items[f[k]]] :
        f \in {g \in [1..Len(items) -> 1..Len(items)] :
                 \A a, b \in 1..Len(items) : g[a] = g[b] => a = b}}

\* C20: the storage AccountStorage::new builds does not depend on the order
\* of the items: given in any other order, the same items are accepted or
\* refused alike, and when accepted yield the same root and the same layout
C20_ItemOrderIrrelevant ==
    StorageReturned("new") =>
        \A permuted \in PermutationsOf(call.items) :
            LET other == account_storage_new(permuted, call.maps)
            IN  /\ other.ok = ret.ok
                /\ other.ok =>
                    /\ root(other.value) = root(storage)
                    /\ layout(other.value) = layout(storage)

C20_Witness ==
    /\ StorageReturned("new")
    /\ ret.ok
    /\ call.items = <<<<1, <<SlotMap(2), OneWord>>>>, <<0, <<SlotValue(1), OneWord>>>>>>
    /\ account_storage_new(Reverse(call.items), call.maps).ok
    /\ root(account_storage_new(Reverse(call.items), call.maps).value) = root(storage)

\* a list of (index, field) entries names index 255 or names an index twice
NamesReservedOrRepeats(entries) ==
    \/ \E k \in 1..Len(entries) : entries[k][1] = SLOT_LAYOUT_COMMITMENT_INDEX
    \/ \E k, n \in 1..Len(entries) : k # n /\ entries[k][1] = entries[n][1]

\* C21: an encoding that names index 255 or repeats an index, in the list of
\* slot types or in the list of slot values, is never decoded into a
\* storage: read_from returns an error
C21_InvalidEncodingRejected ==
    (StorageReturned("read_from")
        /\ (NamesReservedOrRepeats(call.types) \/ NamesReservedOrRepeats(call.values))) =>
        ~ret.ok

\* C22: for a Join whose first part is a Split with non-kernel calls on both
\* sides and whose second part is a non-kernel Call of t, t is in every
\* collected branch
C22_CallAppendedToEveryBranch ==
    (/\ VerifyReturned
     /\ call.program.kind = "Join"
     /\ call.program.first.kind = "Split"
     /\ NonKernelCalls(call.program.first.on_false) # {}
     /\ NonKernelCalls(call.program.first.on_true) # {}
     /\ call.program.second.kind = "Call"
     /\ ~call.program.second.is_syscall) =>
        LET branches == collect_call_branches(call.program).branches
        IN  \A i \in 1..Len(branches) :
                call.program.second.fn_hash \in Range(branches[i])

\* a block with the target of every non-kernel call replaced by a mark
RECURSIVE Paint(_, _)
Paint(b, mark) ==
    CASE b.kind = "Join" -> Join(Paint(b.first, mark), Paint(b.second, mark))
      [] b.kind = "Split" -> Split(Paint(b.on_true, mark), Paint(b.on_false, mark))
      [] b.kind = "Loop" -> Loop(Paint(b.body, mark))
      [] b.kind = "Call" -> IF b.is_syscall THEN b ELSE Call(mark, FALSE)
      [] OTHER -> b

\* the block with one of its Split nodes painted: the calls of its on_false
\* side marked 3, the calls of its on_true side marked 4; one block for each
\* Split node
RECURSIVE PaintedSplits(_)
PaintedSplits(b) ==
    CASE b.kind = "Join" ->
            {Join(m, b.second) : m \in PaintedSplits(b.first)}
            \cup {Join(b.first, m) : m \in PaintedSplits(b.second)}
      [] b.kind = "Split" ->
            {Split(Paint(b.on_true, 4), Paint(b.on_false, 3))}
            \cup {Split(m, b.on_false) : m \in PaintedSplits(b.on_true)}
            \cup {Split(b.on_true, m) : m \in PaintedSplits(b.on_false)}
      [] b.kind = "Loop" -> {Loop(m) : m \in PaintedSplits(b.body)}
      [] OTHER -> {}

\* the calls of a branch before its first marked call
BeforeMarks(branch) ==
    LET marked == {k \in 1..Len(branch) : branch[k] \in {3, 4}}
    IN  IF marked = {} THEN branch
        ELSE SubSeq(branch, 1, (CHOOSE k \in marked : \A n \in marked : k <= n) - 1)

\* C23: for every Split node of a program, nested ones included, no
\* collected branch holds calls of both the on_false side and the on_true
\* side of that node, and the branches that hold calls of the on_true side
\* start with the calls the branch held when the Split was entered, as the
\* branches of the on_false side do
C23_SidesNotMixed ==
    VerifyReturned =>
        \A painted \in PaintedSplits(call.program) :
            LET branches == collect_call_branches(painted).branches
            IN  /\ \A i \in 1..Len(branches) :
                       ~(3 \in Range(branches[i]) /\ 4 \in Range(branches[i]))
                /\ \A i, j \in 1..Len(branches) :
                       (3 \in Range(branches[i]) /\ 4 \in Range(branches[j])) =>
                           BeforeMarks(branches[i]) = BeforeMarks(branches[j])

C23_Witness ==
    /\ VerifyReturned
    /\ call.program = Split(Call(2, FALSE), Split(Call(1, FALSE), Call(2, FALSE)))
    /\ collect_call_branches(call.program).branches = <<<<2>>, <<1>>, <<2>>>>
    /\ call.target_account_interface = <<1>>
    /\ ret.ok

\* a block with every Loop replaced by its body
RECURSIVE Unloop(_)
Unloop(b) ==
    CASE b.kind = "Join" -> Join(Unloop(b.first), Unloop(b.second))
      [] b.kind = "Split" -> Split(Unloop(b.on_true), Unloop(b.on_false))
      [] b.kind = "Loop" -> Unloop(b.body)
      [] OTHER -> b

\* C24: a Loop contributes the branches of its body walked once: the
\* branches collected for a program are those collected for the program with
\* each Loop replaced by its body, no call of a loop body is repeated, and the
\* check accepts the one exactly when it accepts the other, for every
\* interface
C24_LoopWalkedOnce ==
    VerifyReturned =>
        /\ collect_call_branches(call.program) = collect_call_branches(Unloop(call.program))
        /\ ret.ok = verify_program_account_compatibility(
                        Unloop(call.program), call.target_account_interface).ok
        /\ call.program.kind = "Loop" =>
               ret.ok = verify_program_account_compatibility(
                            call.program.body, call.target_account_interface).ok

C24_Witness ==
    /\ VerifyReturned
    /\ call.program = Loop(Join(Call(1, FALSE), Loop(Call(2, FALSE))))
    /\ collect_call_branches(call.program).branches = <<<<1, 2>>>>
    /\ call.target_account_interface = <<2, 1>>
    /\ ret.ok

\* C25: a failing set_item leaves the storage as it was (the root, the value
\* of every slot and the layout), and neither set_item nor apply_delta,
\* succeeding or failing, changes the layout or the maps
C25_FailureAndLayoutFrame ==
    [][(pc = "idle" /\ (StorageReturned("set_item")' \/ StorageReturned("apply_delta")')) =>
        /\ layout(storage') = layout(storage)
        /\ maps(storage') = maps(storage)
        /\ (call'.op = "set_item" /\ ~ret'.ok) =>
              /\ root(storage') = root(storage)
              /\ \A i \in LeafIndices : get_item(storage', i) = get_item(storage, i)
              /\ storage' = storage]_vars

C25_Witness ==
    /\ StorageReturned("set_item")
    /\ ~ret.ok
    /\ call.index = 0
    /\ call.value = OneWord
    /\ layout_at(layout(storage), 0) = SlotMap(2)
    /\ get_item(storage, 0) = ZeroWord
    /\ maps(storage) = Some(<<1>>)

\* C26: compile_note_script, compile_transaction and build_program_info,
\* succeeding or failing, leave the registry as it was; so does a load_account
\* whose assembly fails; a registration for an account leaves the entry of
\* every other account as it was; and build_program_info returns the hash of
\* the kernel entry program compiled at construction after any operations
C26_RegistryChangesByRegistrationOnly ==
    [][pc' = "returned" =>
        /\ call'.op \in {"compile_note_script", "compile_transaction", "build_program_info"} =>
              account_procedures' = account_procedures
        /\ (call'.op = "load_account" /\ ~ret'.ok) =>
              account_procedures' = account_procedures
        /\ call'.op \in {"load_account", "load_account_interface"} =>
              \A id \in AccountIds \ {call'.account_id} :
                  /\ id \in DOMAIN account_procedures' <=> id \in DOMAIN account_procedures
                  /\ id \in DOMAIN account_procedures =>
                        account_procedures'[id] = account_procedures[id]
        /\ call'.op = "build_program_info" =>
              ret' = Ok([program_hash |-> Hash(KernelMain), kernel |-> "kernel"])
        /\ Hash(kernel_main') = Hash(KernelMain)]_vars

C26_Witness ==
    /\ pc = "returned"
    /\ call.op = "load_account"
    /\ call.account_id = "A"
    /\ ~ret.ok
    /\ Registered("A")
    /\ account_procedures["A"] = <<1, 2>>
    /\ Registered("B")

\* every step of the walk of a block from w finds a branch to work on, and
\* in a Split the last branch after on_false is no shorter than the last
\* branch was at entry
RECURSIVE WalkSafe(_, _)
WalkSafe(b, w) ==
    /\ ~w.panicked
    /\ w.branches # <<>>
    /\ CASE b.kind = "Join" ->
               /\ WalkSafe(b.first, w)
               /\ WalkSafe(b.second, recursively_collect_call_branches(b.first, w))
         [] b.kind = "Split" ->
               LET current_len == Len(Last(w.branches))
                   after_false == recursively_collect_call_branches(b.on_false, w)
               IN  /\ WalkSafe(b.on_false, w)
                   /\ ~after_false.panicked
                   /\ after_false.branches # <<>>
                   /\ Len(Last(after_false.branches)) >= current_len
                   /\ WalkSafe(b.on_true, split_new_branch(after_false, current_len))
         [] b.kind = "Loop" -> WalkSafe(b.body, w)
         [] OTHER -> TRUE
    /\ ~recursively_collect_call_branches(b, w).panicked
    /\ recursively_collect_call_branches(b, w).branches # <<>>

\* C27: the branch enumeration panics on no program: the vector of branches
\* is non-empty at every step of the walk, and in a Split the last branch
\* after on_false is never shorter than the length recorded before it, so
\* the slice [..current_len] is in bounds
C27_WalkNeverPanics ==
    VerifyReturned =>
        /\ WalkSafe(call.program, Walk(<<<<>>>>))
        /\ ~collect_call_branches(call.program).panicked
        /\ collect_call_branches(call.program).branches # <<>>
        /\ ret # Panicked

C27_Witness ==
    /\ VerifyReturned
    /\ call.program = Split(Call(2, FALSE), Split(Span, Call(1, FALSE)))
    /\ collect_call_branches(call.program) = Walk(<<<<1>>, <<2>>>>)
    /\ ret # Panicked

\* C28: the result of the check depends on the set of the digests of the
\* interface only: an interface with the same digests, in another order or
\* with entries repeated, gives the same result, and a program compatible
\* with an interface is compatible with every interface that holds all its
\* digests
C28_InterfaceAsSet ==
    VerifyReturned =>
        \A other \in Interfaces :
            LET result == verify_program_account_compatibility(call.program, other)
            IN  /\ Range(other) = Range(call.target_account_interface) => result = ret
                /\ (ret.ok /\ Range(call.target_account_interface) \subseteq Range(other)) =>
                       result.ok

C28_Witness ==
    /\ VerifyReturned
    /\ call.program = Join(Call(1, FALSE), Loop(Call(2, FALSE)))
    /\ call.target_account_interface = <<2, 1>>
    /\ ret.ok
    /\ verify_program_account_compatibility(call.program, <<1, 2>>).ok
    /\ ~verify_program_account_compatibility(call.program, <<1, 1>>).ok

\* the indices below 255 whose slot type is not the default, and those whose
\* value is not the zero word
ComplexIndices(self) ==
    {i \in LeafIndices \ {SLOT_LAYOUT_COMMITMENT_INDEX} :
        layout_at(layout(self), i) # SlotValue(0)}
FilledIndices(self) ==
    {i \in LeafIndices \ {SLOT_LAYOUT_COMMITMENT_INDEX} : get_item(self, i) # ZeroWord}

\* C29: in every state of the storage the two counts serialization writes
\* are the numbers of the entries that follow them: the number of the slot
\* types other than the default at the indices 0..254 and the number of the
\* non-zero values at the indices other than 255, each at most 255, so that
\* no `as u8` truncates; a slot holding the zero word, never set or cleared,
\* is not written
C29_CountsNotTruncated ==
    StorageReturned("write_into") =>
        LET bytes == ret.value
            types == Cardinality(ComplexIndices(storage))
            values == Cardinality(FilledIndices(storage))
        IN  /\ types <= 255
            /\ values <= 255
            /\ Len(bytes) = 2 + 2 * types + 2 * values
            /\ bytes[1] = types
            /\ {bytes[2 * k] : k \in 1..types} = ComplexIndices(storage)
            /\ bytes[2 + 2 * types] = values
            /\ {bytes[1 + 2 * types + 2 * k] : k \in 1..values} = FilledIndices(storage)
            /\ \A k \in 1..values :
                   bytes[2 + 2 * types + 2 * k] = get_item(storage, bytes[1 + 2 * types + 2 * k])

\* every slot below 255 was filled at construction and slot 0 was cleared
C29_Witness ==
    /\ StorageReturned("write_into")
    /\ get_item(storage, 0) = ZeroWord
    /\ FilledIndices(storage) = LeafIndices \ {0, SLOT_LAYOUT_COMMITMENT_INDEX}
    /\ ret.value[1] = 0
    /\ ret.value[2] = 254

\* the items that rebuild a storage: for each of the indices, in ascending
\* order, the current slot type and the current value
RECURSIVE ItemsOf(_, _)
ItemsOf(self, indices) ==
    IF indices = {} THEN <<>>
    ELSE LET i == CHOOSE k \in indices : \A n \in indices : k <= n
         IN  <<<<i, <<layout_at(layout(self), i), get_item(self, i)>>>>>>
             \o ItemsOf(self, indices \ {i})

\* the items of the indices below 255 whose slot type is not the default or
\* whose value is not the zero word
CurrentItems(self) == ItemsOf(self, ComplexIndices(self) \cup FilledIndices(self))

\* C30: the root depends on the current values of the slots only: after any
\* set_item and apply_delta calls the root is the root of the storage
\* AccountStorage::new builds from the current slot types and the current
\* non-zero values, so that a slot set and cleared again leaves the root the
\* storage had while the slot was unset.  Stated of the storage as every
\* call leaves it (the state between two calls) and as set_item returns it.
C30_RootOfCurrentValues ==
    (storage.built /\ (pc = "idle" \/ StorageReturned("set_item"))) =>
        LET fresh == account_storage_new(CurrentItems(storage), maps(storage))
        IN  /\ fresh.ok
            /\ root(fresh.value) = root(storage)
            /\ layout(fresh.value) = layout(storage)

\* slot 0, which held a value, was cleared by set_item; slot 1 holds a value
C30_Witness ==
    /\ StorageReturned("set_item")
    /\ call.index = 0
    /\ call.value = ZeroWord
    /\ ret = Ok(OneWord)
    /\ get_item(storage, 1) = OneWord
    /\ CurrentItems(storage) = <<<<1, <<SlotValue(0), OneWord>>>>>>
    /\ root(account_storage_new(<<<<1, <<SlotValue(0), OneWord>>>>>>, maps(storage)).value)
          = root(storage)

====
